---- MODULE Spec2Model ----
(***************************************************************************)
(* check-canyon: a differential conformance checker for the Canyon         *)
(* upgrade.  The model covers op-chain-ops/cmd/check-canyon/main.go:       *)
(* CalcBaseFee, PreCanyonEncode / PostCanyonEncode, HashList,              *)
(* ValidateReceipts, Validate1559Params.                                   *)
(***************************************************************************)
EXTENDS Integers, Sequences, FiniteSets, TLC

(***************************************************************************)
(* Bounds of the explored input space.                                     *)
(***************************************************************************)
MaxGasLimit == 4
MaxGasUsed == 5
MaxBaseFee == 320
MaxElasticity == 2
MaxExampleBaseFee == 400

(* The worked example of the fee model: gasLimit 30,000,000, elasticity 6, *)
(* gasUsed 1,000,000.                                                      *)
ExampleElasticity == 6

MaxReceipts == 2
MaxChainGasLimit == 2
MaxChainGasUsed == 3
ChainFeeStep == 40
MaxNumber == 1
MaxChainReceipts == 2
MaxEntries == 3
MaxLongList == 129
MaxMainGasLimit == 2
MaxMainGasUsed == 2
MaxMainReceipts == 1
MaxApiRetries == 4

VARIABLES
    parent,       \* the parent block handed to CalcBaseFee: gasLimit, gasUsed, baseFee
    elasticity,   \* Args.Elasticity
    fee,          \* per variant (TRUE = preCanyon), the outcome of CalcBaseFee
    receipts,     \* the receipt objects the types.Receipts slice points to
    out,          \* per variant, the [][]byte returned by the encoder
    number,       \* Args.Number, a uint64
    blockBaseFee, \* BaseFee() of the block the data source holds at Args.Number
    receiptHash,  \* ReceiptHash() of the block the data source holds at Args.Number
    err1559,      \* per variant, the outcome of Validate1559Params
    errReceipts,  \* per variant, the outcome of ValidateReceipts
    calls,        \* per variant, the data-source calls the check issued, in order
    hashList,     \* the [][]byte handed to HashList
    hashRoot,     \* the root HashList returned for it
    tool,         \* which main runs: "CheckActivation" (log.Error) or "ValidatePair" (log.Crit)
    assumed,      \* the -pre-canyon flag: the variant assumed to be active
    pc,           \* the position of main
    reports,      \* the error-level log records written so far, in order
    sourceLog,    \* per check and variant, the data-source calls with their outcomes
    fetchFn,      \* the etherscan fetcher running: "fetchEtherscanApi" or "fetchDeploymentData"
    apiMaxRetries, \* its apiMaxRetries argument
    retries,      \* its loop counter
    responses,    \* the outcomes of the HTTP requests it has issued, in order
    fetched       \* what it returned

vars ==
    <<parent, elasticity, fee, receipts, out, number, blockBaseFee, receiptHash,
      err1559, errReceipts, calls, hashList, hashRoot, tool, assumed, pc, reports,
      sourceLog, fetchFn, apiMaxRetries, retries, responses, fetched>>

hashVars == <<hashList, hashRoot>>

fetchVars == <<fetchFn, apiMaxRetries, retries, responses, fetched>>

mainVars == <<tool, assumed, pc, reports, sourceLog>>

chainVars == <<number, blockBaseFee, receiptHash>>

checkVars == <<err1559, errReceipts, calls>>

feeVars == <<parent, elasticity, fee>>

encVars == <<receipts, out>>

(***************************************************************************)
(* Results of a Go call: a returned value, or a run-time panic.            *)
(***************************************************************************)
NotCalled == [status |-> "none", val |-> 0]
Panicked == [status |-> "panic", val |-> 0]
NoOutput == [status |-> "none", val |-> <<>>]
NoRoot == [status |-> "none", val |-> {}]

\* HashList has not been called.
HashIdle == hashList = <<>> /\ hashRoot = NoRoot

\* etherscanApiResponse{}: the zero response.
EmptyResponse ==
    [http |-> FALSE, json |-> FALSE, message |-> "", result |-> "", input |-> ""]

\* No etherscan fetcher has returned.
NotFetched ==
    [status |-> "none", err |-> "", n |-> 0, data |-> "", response |-> EmptyResponse]

FetchIdle ==
    /\ fetchFn = "fetchEtherscanApi"
    /\ apiMaxRetries = 0
    /\ retries = 0
    /\ responses = <<>>
    /\ fetched = NotFetched

\* main is not running.
MainIdle ==
    /\ tool = "CheckActivation"
    /\ assumed = TRUE
    /\ pc = "off"
    /\ reports = <<>>
    /\ sourceLog = <<>>

(***************************************************************************)
(* uint64 values that may wrap are kept as four 16-bit limbs, most         *)
(* significant first.                                                      *)
(***************************************************************************)
Uint64(n) == <<0, 0, 0, n>>

Uint64DecSaturating(x) ==
    IF x[4] > 0 THEN <<x[1], x[2], x[3], x[4] - 1>>
    ELSE IF x[3] > 0 THEN <<x[1], x[2], x[3] - 1, 65535>>
    ELSE IF x[2] > 0 THEN <<x[1], x[2] - 1, 65535, 65535>>
    ELSE IF x[1] > 0 THEN <<x[1] - 1, 65535, 65535, 65535>>
    ELSE <<0, 0, 0, 0>>

\* x - 1 in uint64 arithmetic (wraps to 2^64 - 1 at 0)
Uint64Dec(x) ==
    IF x[4] > 0 THEN <<x[1], x[2], x[3], x[4] - 1>>
    ELSE IF x[3] > 0 THEN <<x[1], x[2], x[3] - 1, 65535>>
    ELSE IF x[2] > 0 THEN <<x[1], x[2] - 1, 65535, 65535>>
    ELSE IF x[1] > 0 THEN <<x[1] - 1, 65535, 65535, 65535>>
    ELSE <<65535, 65535, 65535, 65535>>

(***************************************************************************)
(* Outcomes of a check: not run, nil, a mismatch error carrying the        *)
(* observed and the computed value, the error of the failed data-source    *)
(* call (failed = 1 or 2: which call), or a run-time panic.                *)
(***************************************************************************)
NotRun == [status |-> "none", have |-> 0, want |-> 0, failed |-> 0]
\* return nil
ErrNil == [status |-> "nil", have |-> 0, want |-> 0, failed |-> 0]
\* return err
ErrUnavailable(k) == [status |-> "unavailable", have |-> 0, want |-> 0, failed |-> k]
ErrPanic == [status |-> "panic", have |-> 0, want |-> 0, failed |-> 0]
\* fmt.Errorf("BaseFee does not match. have: %v, want: %v", have, want)
ErrBaseFee(have, want) == [status |-> "mismatch", have |-> have, want |-> want, failed |-> 0]

\* The same outcomes for ValidateReceipts, whose mismatch error also carries
\* the variant; the roots are tries, the empty trie being {}.
NotRunReceipts ==
    [status |-> "none", preCanyon |-> FALSE, have |-> {}, want |-> {}, failed |-> 0]
ErrNilReceipts ==
    [status |-> "nil", preCanyon |-> FALSE, have |-> {}, want |-> {}, failed |-> 0]
ErrUnavailableReceipts(k) ==
    [status |-> "unavailable", preCanyon |-> FALSE, have |-> {}, want |-> {}, failed |-> k]
\* fmt.Errorf("Receipts do not look correct. pre-canyon: %v. have: %v, want: %v", ...)
ErrReceiptHash(preCanyon, have, want) ==
    [status |-> "mismatch", preCanyon |-> preCanyon, have |-> have, want |-> want,
     failed |-> 0]
Returned(v) == [status |-> "ok", val |-> v]

(***************************************************************************)
(* math/big and common/math helpers, on non-negative operands.             *)
(***************************************************************************)
\* math.BigMax(x, y): if x.Cmp(y) < 0 { return y }; return x
BigMax(x, y) == IF x < y THEN y ELSE x

\* big.Int.Div(x, y): Euclidean division, run-time panic when y = 0
BigDiv(x, y) == IF y = 0 THEN Panicked ELSE Returned(x \div y)

(***************************************************************************)
(* CalcBaseFee                                                             *)
(***************************************************************************)
denomUintSwapped(preCanyon) == IF preCanyon THEN 250 ELSE 50

\* denomUint := uint64(250); if preCanyon { denomUint = uint64(50) }
denomUint(preCanyon) == IF preCanyon THEN 50 ELSE 250

parentGasTargetNoElasticity(p, e) == IF e = 0 THEN Panicked ELSE Returned(p.gasLimit)

\* parentGasTarget := parent.GasLimit() / elasticity   (uint64 division)
parentGasTarget(p, e) == IF e = 0 THEN Panicked ELSE Returned(p.gasLimit \div e)

BaseFeeIncreaseNoMinimum(p, target, denom) ==
    LET num1 == p.gasUsed - target
        num2 == num1 * p.baseFee
        num3 == BigDiv(num2, target)
    IN  IF num3.status = "panic" THEN Panicked
        ELSE LET num4 == BigDiv(num3.val, denom)
             IN  IF num4.status = "panic" THEN Panicked
                 ELSE Returned(p.baseFee + num4.val)

\* The increase branch: num = gasUsed - target; num *= baseFee;
\* num /= target; num /= denomUint; baseFee + BigMax(num, 1)
BaseFeeIncrease(p, target, denom) ==
    LET num1 == p.gasUsed - target
        num2 == num1 * p.baseFee
        num3 == BigDiv(num2, target)
    IN  IF num3.status = "panic" THEN Panicked
        ELSE LET num4 == BigDiv(num3.val, denom)
             IN  IF num4.status = "panic" THEN Panicked
                 ELSE LET baseFeeDelta == BigMax(num4.val, 1)
                      IN  Returned(p.baseFee + baseFeeDelta)

BaseFeeDecreaseAdds(p, target, denom) ==
    LET num1 == target - p.gasUsed
        num2 == num1 * p.baseFee
        num3 == BigDiv(num2, target)
    IN  IF num3.status = "panic" THEN Panicked
        ELSE LET num4 == BigDiv(num3.val, denom)
             IN  IF num4.status = "panic" THEN Panicked
                 ELSE LET baseFee == p.baseFee + num4.val
                      IN  Returned(BigMax(baseFee, 0))

\* The decrease branch: num = target - gasUsed; num *= baseFee;
\* num /= target; num /= denomUint; BigMax(baseFee - num, 0)
BaseFeeDecrease(p, target, denom) ==
    LET num1 == target - p.gasUsed
        num2 == num1 * p.baseFee
        num3 == BigDiv(num2, target)
    IN  IF num3.status = "panic" THEN Panicked
        ELSE LET num4 == BigDiv(num3.val, denom)
             IN  IF num4.status = "panic" THEN Panicked
                 ELSE LET baseFee == p.baseFee - num4.val
                      IN  Returned(BigMax(baseFee, 0))

CalcBaseFee(p, e, preCanyon) ==
    LET target == parentGasTarget(p, e)
    IN  IF target.status = "panic" THEN Panicked
        ELSE IF p.gasUsed = target.val THEN Returned(p.baseFee)
        ELSE IF p.gasUsed > target.val
             THEN BaseFeeIncrease(p, target.val, denomUint(preCanyon))
             ELSE BaseFeeDecrease(p, target.val, denomUint(preCanyon))

(***************************************************************************)
(* Specification of the fee model alone: the inputs are drawn from the     *)
(* bounded sets and CalcBaseFee is applied under each variant.             *)
(***************************************************************************)
Blocks ==
    [gasLimit : 0..MaxGasLimit, gasUsed : 0..MaxGasUsed, baseFee : 0..MaxBaseFee]

ExampleBlocks ==
    [gasLimit : {30000000}, gasUsed : {1000000}, baseFee : 0..MaxExampleBaseFee]

IsExample ==
    /\ parent.gasLimit = 30000000
    /\ parent.gasUsed = 1000000
    /\ elasticity = ExampleElasticity

InitFee ==
    /\ \/ parent \in Blocks /\ elasticity \in 0..MaxElasticity
       \/ parent \in ExampleBlocks /\ elasticity = ExampleElasticity
    /\ fee = [v \in BOOLEAN |-> NotCalled]
    /\ receipts = <<>>
    /\ out = [v \in BOOLEAN |-> NoOutput]
    /\ number = Uint64(1)
    /\ blockBaseFee = 0
    /\ receiptHash = {}
    /\ err1559 = [v \in BOOLEAN |-> NotRun]
    /\ errReceipts = [v \in BOOLEAN |-> NotRunReceipts]
    /\ calls = [v \in BOOLEAN |-> <<>>]
    /\ HashIdle
    /\ MainIdle
    /\ FetchIdle

CallCalcBaseFee(preCanyon) ==
    /\ fee[preCanyon].status = "none"
    /\ fee' = [fee EXCEPT ![preCanyon] = CalcBaseFee(parent, elasticity, preCanyon)]
    /\ UNCHANGED <<parent, elasticity>>
    /\ UNCHANGED <<encVars, chainVars, checkVars, hashVars, mainVars, fetchVars>>

CallCalcBaseFeeLegacy == CallCalcBaseFee(TRUE)

CallCalcBaseFeeUpgraded == CallCalcBaseFee(FALSE)

NextFee == CallCalcBaseFeeLegacy \/ CallCalcBaseFeeUpgraded

SpecFee == InitFee /\ [][NextFee]_vars

(***************************************************************************)
(* Receipts.  A receipt object carries its transaction type, its status    *)
(* (standing for the consensus fields status, cumulative gas, bloom and    *)
(* logs, which every encoding writes the same way), and two optional       *)
(* uint64 pointers, a nil pointer being <<>> and a pointer to v being      *)
(* <<v>>: DepositNonce and DepositReceiptVersion.                          *)
(***************************************************************************)
LegacyTxType == 0
DynamicFeeTxType == 2
DepositTxType == 126

\* rlp encoding of a uint64 as one item: 0 is the empty string (0x80), a
\* value below 128 is its own byte
RlpUint(n) == IF n = 0 THEN 128 ELSE n

\* rlp encoding of an optional *uint64 that is written: nil is the empty string
RlpOptional(ptr) == IF ptr = <<>> THEN 128 ELSE RlpUint(ptr[1])

\* types.Receipts.EncodeIndex: the legacy receipt is the bare field list; a
\* typed receipt is its type byte followed by the field list; a deposit
\* receipt whose DepositReceiptVersion is not nil appends the deposit nonce
\* and the version to the field list.
EncodeIndex(rs, i) ==
    LET r == rs[i]
        data == <<RlpUint(r.status)>>
    IN  IF r.type = LegacyTxType THEN data
        ELSE IF r.type = DepositTxType /\ r.depositReceiptVersion # <<>>
        THEN <<r.type>> \o data
                \o <<RlpOptional(r.depositNonce), RlpOptional(r.depositReceiptVersion)>>
        ELSE <<r.type>> \o data

EncodeAllFirstIndex(rs) == [i \in 1..Len(rs) |-> EncodeIndex(rs, 1)]

\* var out [][]byte; for i := range receipts { receipts.EncodeIndex(i, &buf);
\* out = append(out, buf.Bytes()) }
EncodeAll(rs) == [i \in 1..Len(rs) |-> EncodeIndex(rs, i)]

PreCanyonMarkZero(rs) ==
    [i \in 1..Len(rs) |->
        IF rs[i].type = DepositTxType
        THEN [rs[i] EXCEPT !.depositReceiptVersion = <<0>>]
        ELSE rs[i]]

\* for _, receipt := range receipts { if receipt.Type == types.DepositTxType
\* { receipt.DepositReceiptVersion = nil } }
PreCanyonMark(rs) ==
    [i \in 1..Len(rs) |->
        IF rs[i].type = DepositTxType
        THEN [rs[i] EXCEPT !.depositReceiptVersion = <<>>]
        ELSE rs[i]]

PostCanyonMarkIfAbsent(rs) ==
    [i \in 1..Len(rs) |->
        IF rs[i].type = DepositTxType /\ rs[i].depositReceiptVersion = <<>>
        THEN [rs[i] EXCEPT !.depositReceiptVersion = <<1>>]
        ELSE rs[i]]

\* v := uint64(1); for _, receipt := range receipts { if receipt.Type ==
\* types.DepositTxType { receipt.DepositReceiptVersion = &v } }
PostCanyonMark(rs) ==
    [i \in 1..Len(rs) |->
        IF rs[i].type = DepositTxType
        THEN [rs[i] EXCEPT !.depositReceiptVersion = <<1>>]
        ELSE rs[i]]

\* The encoders write the marker into the receipt objects, then encode them.
PreCanyonEncode(rs) == EncodeAll(PreCanyonMark(rs))

PostCanyonEncodePrepends(rs) ==
    [i \in 1..Len(rs) |-> EncodeAll(PostCanyonMark(rs))[Len(rs) + 1 - i]]

PostCanyonEncode(rs) == EncodeAll(PostCanyonMark(rs))

(***************************************************************************)
(* Specification of the encoders alone: a bounded receipt sequence is      *)
(* drawn and each encoder is applied to the same receipt objects, in       *)
(* either order.                                                           *)
(***************************************************************************)
TxTypes == {LegacyTxType, DynamicFeeTxType, DepositTxType}

ReceiptObjects ==
    [type : TxTypes, status : {0, 1},
     depositNonce : {<<>>, <<1>>},
     depositReceiptVersion : {<<>>, <<0>>, <<1>>}]

SeqUpTo(S, n) == UNION {[1..k -> S] : k \in 0..n}

InitEnc ==
    /\ receipts \in SeqUpTo(ReceiptObjects, MaxReceipts)
    /\ out = [v \in BOOLEAN |-> NoOutput]
    /\ parent = [gasLimit |-> 0, gasUsed |-> 0, baseFee |-> 0]
    /\ elasticity = 1
    /\ fee = [v \in BOOLEAN |-> NotCalled]
    /\ number = Uint64(1)
    /\ blockBaseFee = 0
    /\ receiptHash = {}
    /\ err1559 = [v \in BOOLEAN |-> NotRun]
    /\ errReceipts = [v \in BOOLEAN |-> NotRunReceipts]
    /\ calls = [v \in BOOLEAN |-> <<>>]
    /\ HashIdle
    /\ MainIdle
    /\ FetchIdle

CallPreCanyonEncode ==
    /\ out[TRUE].status = "none"
    /\ receipts' = PreCanyonMark(receipts)
    /\ out' = [out EXCEPT ![TRUE] = Returned(PreCanyonEncode(receipts))]
    /\ UNCHANGED <<feeVars, chainVars, checkVars, hashVars, mainVars, fetchVars>>

CallPostCanyonEncode ==
    /\ out[FALSE].status = "none"
    /\ receipts' = PostCanyonMark(receipts)
    /\ out' = [out EXCEPT ![FALSE] = Returned(PostCanyonEncode(receipts))]
    /\ UNCHANGED <<feeVars, chainVars, checkVars, hashVars, mainVars, fetchVars>>

NextEnc == CallPreCanyonEncode \/ CallPostCanyonEncode

SpecEnc == InitEnc /\ [][NextEnc]_vars

(***************************************************************************)
(* HashList.  The trie is the set of its <<key, value>> pairs and the root *)
(* digest stands for the trie content (the digest is taken as injective).  *)
(***************************************************************************)
\* big-endian bytes of n > 0, without leading zeros
RECURSIVE BigEndian(_)
BigEndian(n) == IF n = 0 THEN <<>> ELSE BigEndian(n \div 256) \o <<n % 256>>

AppendUint64Raw(i) == BigEndian(i)

\* rlp.AppendUint64(nil, i): 0x80 for 0, the byte itself below 128, otherwise
\* the length prefix 0x80 + len followed by the big-endian bytes
AppendUint64(i) ==
    IF i = 0 THEN <<128>>
    ELSE IF i < 128 THEN <<i>>
    ELSE <<128 + Len(BigEndian(i))>> \o BigEndian(i)

\* trie.Update(key, value): an empty value deletes the key
TrieUpdate(t, key, value) ==
    LET others == {kv \in t : kv[1] # key}
    IN  IF value = <<>> THEN others ELSE others \cup {<<key, value>>}

RECURSIVE TrieAfterKeyedByValue(_, _)
TrieAfterKeyedByValue(list, n) ==
    IF n = 0 THEN {}
    ELSE TrieUpdate(TrieAfterKeyedByValue(list, n - 1), list[n], list[n])

\* the trie after the first n iterations of the loop over list (Go index i
\* is position i + 1 of the sequence): iteration after iteration TrieUpdate
\* is applied to it, so that a key holds the value of the last iteration
\* that wrote it, unless that value is empty
TrieAfter(list, n) ==
    LET last(k) == \A m \in (k + 1)..n : AppendUint64(m - 1) # AppendUint64(k - 1)
    IN  {<<AppendUint64(k - 1), list[k]>> :
            k \in {i \in 1..n : last(i) /\ list[i] # <<>>}}

HashList(list) == TrieAfter(list, Len(list))

(***************************************************************************)
(* Specification of HashList alone: a bounded list of byte strings is      *)
(* drawn, short lists over a few byte strings (the empty one included) and *)
(* lists long enough for an index above 127, and HashList is applied.      *)
(***************************************************************************)
ByteStrings == {<<>>, <<1>>, <<2>>, <<1, 2>>}

LongLists == {[i \in 1..n |-> <<1 + (i % 2)>>] : n \in 129..MaxLongList}

InitHash ==
    /\ hashList \in SeqUpTo(ByteStrings, MaxEntries) \cup LongLists
    /\ hashRoot = NoRoot
    /\ parent = [gasLimit |-> 0, gasUsed |-> 0, baseFee |-> 0]
    /\ elasticity = 1
    /\ fee = [v \in BOOLEAN |-> NotCalled]
    /\ receipts = <<>>
    /\ out = [v \in BOOLEAN |-> NoOutput]
    /\ number = Uint64(1)
    /\ blockBaseFee = 0
    /\ receiptHash = {}
    /\ err1559 = [v \in BOOLEAN |-> NotRun]
    /\ errReceipts = [v \in BOOLEAN |-> NotRunReceipts]
    /\ calls = [v \in BOOLEAN |-> <<>>]
    /\ MainIdle
    /\ FetchIdle

CallHashList ==
    /\ hashRoot.status = "none"
    /\ hashRoot' = Returned(HashList(hashList))
    /\ UNCHANGED <<hashList, feeVars, encVars, chainVars, checkVars, mainVars, fetchVars>>

NextHash == CallHashList

SpecHash == InitHash /\ [][NextHash]_vars

(***************************************************************************)
(* ValidateReceipts.  The data source holds the block at Args.Number       *)
(* (receipts root receiptHash) and the receipt objects of that block.      *)
(***************************************************************************)
InfoByNumberCall(height) == <<"InfoByNumber", height>>

FetchReceiptsCall(height) == <<"FetchReceipts", height>>

ValidateReceiptsNoCompare(rs, have, preCanyon, ok1, ok2) ==
    IF ~ok1 THEN ErrUnavailableReceipts(1)
    ELSE IF ~ok2 THEN ErrUnavailableReceipts(2)
    ELSE ErrNilReceipts

ValidateReceiptsOppositeEncoder(rs, have, preCanyon, ok1, ok2) ==
    IF ~ok1 THEN ErrUnavailableReceipts(1)
    ELSE IF ~ok2 THEN ErrUnavailableReceipts(2)
    ELSE LET want == IF preCanyon
                     THEN HashList(PostCanyonEncode(rs))
                     ELSE HashList(PreCanyonEncode(rs))
         IN  IF have # want THEN ErrReceiptHash(preCanyon, have, want)
             ELSE ErrNilReceipts

\* The error ValidateReceipts returns: rs are the fetched receipts, have the
\* receipts root of the block at Args.Number, ok1 the success of InfoByNumber
\* and ok2 the success of FetchReceipts.
ValidateReceipts(rs, have, preCanyon, ok1, ok2) ==
    IF ~ok1 THEN ErrUnavailableReceipts(1)
    ELSE IF ~ok2 THEN ErrUnavailableReceipts(2)
    ELSE LET want == IF preCanyon
                     THEN HashList(PreCanyonEncode(rs))
                     ELSE HashList(PostCanyonEncode(rs))
         IN  IF have # want THEN ErrReceiptHash(preCanyon, have, want)
             ELSE ErrNilReceipts

ValidateReceiptsCallsRefetch(n, ok1) ==
    IF ~ok1 THEN <<InfoByNumberCall(n)>>
    ELSE <<InfoByNumberCall(n), FetchReceiptsCall(n), InfoByNumberCall(n)>>

\* The data-source calls ValidateReceipts issues: the block at Args.Number,
\* then, if that succeeded, the receipts of that block's hash (the hash is
\* identified with the height of its block).
ValidateReceiptsCalls(n, ok1) ==
    IF ~ok1 THEN <<InfoByNumberCall(n)>>
    ELSE <<InfoByNumberCall(n), FetchReceiptsCall(n)>>

\* The receipt objects after the call: the encoder writes the marker into the
\* objects it was handed, which are the data source's own objects when it
\* hands them out again (shared) and copies otherwise.
ReceiptsAfterValidate(rs, preCanyon, ok1, ok2, shared) ==
    IF ok1 /\ ok2 /\ shared
    THEN (IF preCanyon THEN PreCanyonMark(rs) ELSE PostCanyonMark(rs))
    ELSE rs

\* The roots a block may show: what either variant produces from the
\* receipts, and the empty root.
ObservedRoots(rs) ==
    {HashList(PreCanyonEncode(rs)), HashList(PostCanyonEncode(rs)), {}}

\* The receipt objects a data source hands out: only a deposit receipt
\* carries a deposit nonce or a version marker.
ChainReceiptObjects ==
    {r \in ReceiptObjects :
        r.type # DepositTxType => (r.depositNonce = <<>> /\ r.depositReceiptVersion = <<>>)}

InitReceipts ==
    /\ receipts \in SeqUpTo(ChainReceiptObjects, MaxChainReceipts)
    /\ receiptHash \in ObservedRoots(receipts)
    /\ number \in {Uint64(n) : n \in 0..MaxNumber}
    /\ errReceipts = [v \in BOOLEAN |-> NotRunReceipts]
    /\ calls = [v \in BOOLEAN |-> <<>>]
    /\ HashIdle
    /\ MainIdle
    /\ FetchIdle
    /\ err1559 = [v \in BOOLEAN |-> NotRun]
    /\ blockBaseFee = 0
    /\ parent = [gasLimit |-> 0, gasUsed |-> 0, baseFee |-> 0]
    /\ elasticity = 1
    /\ fee = [v \in BOOLEAN |-> NotCalled]
    /\ out = [v \in BOOLEAN |-> NoOutput]

CallValidateReceipts(preCanyon) ==
    /\ errReceipts[preCanyon].status = "none"
    /\ \E ok1, ok2, shared \in BOOLEAN :
        /\ errReceipts' = [errReceipts EXCEPT ![preCanyon] =
               ValidateReceipts(receipts, receiptHash, preCanyon, ok1, ok2)]
        /\ calls' = [calls EXCEPT ![preCanyon] = ValidateReceiptsCalls(number, ok1)]
        /\ receipts' = ReceiptsAfterValidate(receipts, preCanyon, ok1, ok2, shared)
    /\ UNCHANGED <<feeVars, out, chainVars, err1559, hashVars, mainVars, fetchVars>>

CallValidateReceiptsLegacy == CallValidateReceipts(TRUE)

CallValidateReceiptsUpgraded == CallValidateReceipts(FALSE)

NextReceipts == CallValidateReceiptsLegacy \/ CallValidateReceiptsUpgraded

SpecReceipts == InitReceipts /\ [][NextReceipts]_vars

(***************************************************************************)
(* The reference fee formula of the fee model.                             *)
(***************************************************************************)
Max(a, b) == IF a >= b THEN a ELSE b

RefTarget(p, e) == p.gasLimit \div e

\* The reference formula divides by the target: it has a value when the
\* elasticity is positive and, off the unchanged case, the target is positive.
RefDefined(p, e) == e > 0 /\ (p.gasUsed # RefTarget(p, e) => RefTarget(p, e) > 0)

RefBaseFee(p, e, legacy) ==
    LET target == RefTarget(p, e)
        denom == IF legacy THEN 50 ELSE 250
    IN  IF p.gasUsed > target
        THEN p.baseFee + Max(1, ((p.baseFee * (p.gasUsed - target)) \div target) \div denom)
        ELSE IF p.gasUsed < target
        THEN Max(0, p.baseFee - ((p.baseFee * (target - p.gasUsed)) \div target) \div denom)
        ELSE p.baseFee

(***************************************************************************)
(* Validate1559Params.  The data source holds the block at Args.Number     *)
(* (base fee blockBaseFee) and its parent at Args.Number - 1; each call to *)
(* it succeeds (ok) or fails with a data-source error.                     *)
(***************************************************************************)
Validate1559ParamsNoCompare(p, have, e, preCanyon, ok1, ok2) ==
    IF ~ok1 THEN ErrUnavailable(1)
    ELSE IF ~ok2 THEN ErrUnavailable(2)
    ELSE LET want == CalcBaseFee(p, e, preCanyon)
         IN  IF want.status = "panic" THEN ErrPanic
             ELSE ErrNil

\* The error Validate1559Params returns: p is the parent the data source
\* holds, have the base fee of the block at Args.Number, ok1 and ok2 the
\* success of the first and of the second InfoByNumber call.
Validate1559Params(p, have, e, preCanyon, ok1, ok2) ==
    IF ~ok1 THEN ErrUnavailable(1)
    ELSE IF ~ok2 THEN ErrUnavailable(2)
    ELSE LET want == CalcBaseFee(p, e, preCanyon)
         IN  IF want.status = "panic" THEN ErrPanic
             ELSE IF have # want.val THEN ErrBaseFee(have, want.val)
             ELSE ErrNil

Validate1559CallsRetry(n, ok1) ==
    IF ~ok1 THEN <<InfoByNumberCall(n), InfoByNumberCall(n)>>
    ELSE <<InfoByNumberCall(n), InfoByNumberCall(Uint64Dec(n))>>

\* The data-source calls Validate1559Params issues: the block at Args.Number,
\* then, if that succeeded, the block at Args.Number - 1.
Validate1559Calls(n, ok1) ==
    IF ~ok1 THEN <<InfoByNumberCall(n)>>
    ELSE <<InfoByNumberCall(n), InfoByNumberCall(Uint64Dec(n))>>

ChainBaseFees == {b \in 0..MaxBaseFee : b % ChainFeeStep \in {0, 1}}

ChainBlocks ==
    [gasLimit : 0..MaxChainGasLimit, gasUsed : 0..MaxChainGasUsed,
     baseFee : ChainBaseFees]

\* The base fees a block may show: what either variant produces from the
\* parent, the parent's own base fee, and 0.
ObservedBaseFees(p, e) ==
    {0, p.baseFee}
        \cup (IF RefDefined(p, e)
              THEN {RefBaseFee(p, e, v) : v \in BOOLEAN}
              ELSE {})

Init1559 ==
    /\ parent \in ChainBlocks
    /\ elasticity \in 0..MaxElasticity
    /\ number \in {Uint64(n) : n \in 0..MaxNumber}
    /\ blockBaseFee \in ObservedBaseFees(parent, elasticity)
    /\ receiptHash = {}
    /\ err1559 = [v \in BOOLEAN |-> NotRun]
    /\ errReceipts = [v \in BOOLEAN |-> NotRunReceipts]
    /\ calls = [v \in BOOLEAN |-> <<>>]
    /\ HashIdle
    /\ MainIdle
    /\ FetchIdle
    /\ fee = [v \in BOOLEAN |-> NotCalled]
    /\ receipts = <<>>
    /\ out = [v \in BOOLEAN |-> NoOutput]

CallValidate1559Params(preCanyon) ==
    /\ err1559[preCanyon].status = "none"
    /\ \E ok1, ok2 \in BOOLEAN :
        /\ err1559' = [err1559 EXCEPT ![preCanyon] =
               Validate1559Params(parent, blockBaseFee, elasticity, preCanyon, ok1, ok2)]
        /\ calls' = [calls EXCEPT ![preCanyon] = Validate1559Calls(number, ok1)]
    /\ UNCHANGED <<feeVars, encVars, chainVars, errReceipts, hashVars, mainVars, fetchVars>>

CallValidate1559ParamsLegacy == CallValidate1559Params(TRUE)

CallValidate1559ParamsUpgraded == CallValidate1559Params(FALSE)

Next1559 == CallValidate1559ParamsLegacy \/ CallValidate1559ParamsUpgraded

Spec1559 == Init1559 /\ [][Next1559]_vars

(***************************************************************************)
(* main and the activation check.  main creates the RPC client and the L1  *)
(* client (log.Crit ends the process when either fails), then runs the     *)
(* activation check on the receipts root and on the base fee.  The check   *)
(* calls the validator under Legacy, then under Upgraded, and writes an    *)
(* error-level log record for each expectation that is not met:            *)
(* CheckActivation writes it with log.Error and goes on, ValidatePair      *)
(* writes it with log.Crit, which ends the process.                        *)
(***************************************************************************)
PreInvalidMsg == "Pre-state was invalid when it was expected to be valid"

PostValidMsg == "Post-state was valid when it was expected to be invalid"

PreValidMsg == "Pre-state was valid when it was expected to be invalid"

PostInvalidMsg == "Post-state was invalid when it was expected to be valid"

IsNil(e) == e.status = "nil"

\* The records written after f(ctx, true) returned e.
ReportOfPre(e, preCanyon) ==
    IF preCanyon
    THEN (IF ~IsNil(e) THEN <<PreInvalidMsg>> ELSE <<>>)
    ELSE (IF IsNil(e) THEN <<PreValidMsg>> ELSE <<>>)

ReportOfPostInverted(e, preCanyon) ==
    IF preCanyon
    THEN (IF ~IsNil(e) THEN <<PostValidMsg>> ELSE <<>>)
    ELSE (IF IsNil(e) THEN <<PostInvalidMsg>> ELSE <<>>)

\* The records written after f(ctx, false) returned e.
ReportOfPost(e, preCanyon) ==
    IF preCanyon
    THEN (IF IsNil(e) THEN <<PostValidMsg>> ELSE <<>>)
    ELSE (IF ~IsNil(e) THEN <<PostInvalidMsg>> ELSE <<>>)

\* A log record, with the check whose invocation wrote it.
Tagged(check, msgs) == [i \in 1..Len(msgs) |-> [check |-> check, msg |-> msgs[i]]]

\* The data-source calls cs of one validator call, with their outcomes.
LogOf(check, preCanyon, cs, ok1, ok2) ==
    [i \in 1..Len(cs) |->
        [check |-> check, preCanyon |-> preCanyon, call |-> cs[i],
         ok |-> IF i = 1 THEN ok1 ELSE ok2]]

\* One activation check: e1 and e2 are what the validator returns under
\* Legacy and under Upgraded, fatal tells whether a log record ends the
\* process.  The second call is made unless the first one panicked or wrote
\* a fatal record.
StopsAfterPre(e1, fatal) ==
    \/ e1.status = "panic"
    \/ fatal /\ ReportOfPre(e1, assumed) # <<>>

StopsAfterPost(e2, fatal) ==
    \/ e2.status = "panic"
    \/ fatal /\ ReportOfPost(e2, assumed) # <<>>

PcAfter(e1, e2, fatal, next) ==
    IF e1.status = "panic" THEN "crashed"
    ELSE IF StopsAfterPre(e1, fatal) THEN "exited"
    ELSE IF e2.status = "panic" THEN "crashed"
    ELSE IF StopsAfterPost(e2, fatal) THEN "exited"
    ELSE next

ReportsAfter(check, e1, e2, fatal) ==
    Tagged(check,
           (IF e1.status = "panic" THEN <<>> ELSE ReportOfPre(e1, assumed))
               \o (IF StopsAfterPre(e1, fatal) \/ e2.status = "panic" THEN <<>>
                   ELSE ReportOfPost(e2, assumed)))

\* The activation check on the receipts root.
RunReceiptsCheck(fatal) ==
    \E ok1a, ok2a, shareda, ok1b, ok2b, sharedb \in BOOLEAN :
        LET e1 == ValidateReceipts(receipts, receiptHash, TRUE, ok1a, ok2a)
            rs1 == ReceiptsAfterValidate(receipts, TRUE, ok1a, ok2a, shareda)
            stop == StopsAfterPre(e1, fatal)
            e2 == ValidateReceipts(rs1, receiptHash, FALSE, ok1b, ok2b)
            rs2 == ReceiptsAfterValidate(rs1, FALSE, ok1b, ok2b, sharedb)
        IN  /\ errReceipts' = [v \in BOOLEAN |->
                                  IF v THEN e1 ELSE IF stop THEN NotRunReceipts ELSE e2]
            /\ receipts' = IF stop THEN rs1 ELSE rs2
            /\ reports' = reports \o ReportsAfter("receipts", e1, e2, fatal)
            /\ sourceLog' =
                 sourceLog
                   \o LogOf("receipts", TRUE, ValidateReceiptsCalls(number, ok1a), ok1a, ok2a)
                   \o (IF stop THEN <<>>
                       ELSE LogOf("receipts", FALSE, ValidateReceiptsCalls(number, ok1b),
                                  ok1b, ok2b))
            /\ pc' = PcAfter(e1, e2, fatal, "fee")

\* The activation check on the base fee.
Run1559Check(fatal) ==
    \E ok1a, ok2a, ok1b, ok2b \in BOOLEAN :
        LET e1 == Validate1559Params(parent, blockBaseFee, elasticity, TRUE, ok1a, ok2a)
            stop == StopsAfterPre(e1, fatal)
            e2 == Validate1559Params(parent, blockBaseFee, elasticity, FALSE, ok1b, ok2b)
        IN  /\ err1559' = [v \in BOOLEAN |-> IF v THEN e1 ELSE IF stop THEN NotRun ELSE e2]
            /\ reports' = reports \o ReportsAfter("fee", e1, e2, fatal)
            /\ sourceLog' =
                 sourceLog
                   \o LogOf("fee", TRUE, Validate1559Calls(number, ok1a), ok1a, ok2a)
                   \o (IF stop THEN <<>>
                       ELSE LogOf("fee", FALSE, Validate1559Calls(number, ok1b), ok1b, ok2b))
            /\ pc' = PcAfter(e1, e2, fatal, "done")

\* The inputs of a run: a parent whose target is 0, 1 or more, a block that
\* shows one of the fees either variant computes, a legacy or a deposit
\* receipt as the data source first hands it out.
MainBlocks ==
    [gasLimit : 0..MaxMainGasLimit, gasUsed : 1..MaxMainGasUsed,
     baseFee : {0, MaxBaseFee}]

MainReceiptObjects ==
    {r \in ChainReceiptObjects :
        /\ r.type \in {LegacyTxType, DepositTxType}
        /\ r.status = 1
        /\ r.depositNonce = <<>>
        /\ r.depositReceiptVersion = <<>>}

InitMain ==
    /\ tool \in {"CheckActivation", "ValidatePair"}
    /\ assumed \in BOOLEAN
    /\ pc = "NewRPC"
    /\ reports = <<>>
    /\ sourceLog = <<>>
    /\ number \in {Uint64(0), Uint64(MaxNumber)}
    /\ elasticity \in 1..MaxElasticity
    /\ parent \in MainBlocks
    /\ blockBaseFee \in ObservedBaseFees(parent, elasticity)
    /\ receipts \in SeqUpTo(MainReceiptObjects, MaxMainReceipts)
    /\ receiptHash \in ObservedRoots(receipts)
    /\ err1559 = [v \in BOOLEAN |-> NotRun]
    /\ errReceipts = [v \in BOOLEAN |-> NotRunReceipts]
    /\ calls = [v \in BOOLEAN |-> <<>>]
    /\ HashIdle
    /\ FetchIdle
    /\ fee = [v \in BOOLEAN |-> NotCalled]
    /\ out = [v \in BOOLEAN |-> NoOutput]

MainUnchanged == <<tool, assumed, feeVars, out, chainVars, calls, hashVars, fetchVars>>

\* client.NewRPC: log.Crit ends the process when it fails.
NewRPC ==
    /\ pc = "NewRPC"
    /\ \E ok \in BOOLEAN : pc' = IF ok THEN "NewL1Client" ELSE "exited"
    /\ UNCHANGED <<MainUnchanged, receipts, err1559, errReceipts, reports, sourceLog>>

\* sources.NewL1Client: log.Crit ends the process when it fails.
NewL1Client ==
    /\ pc = "NewL1Client"
    /\ \E ok \in BOOLEAN : pc' = IF ok THEN "receipts" ELSE "exited"
    /\ UNCHANGED <<MainUnchanged, receipts, err1559, errReceipts, reports, sourceLog>>

CheckActivationValidateReceipts ==
    /\ tool = "CheckActivation"
    /\ pc = "receipts"
    /\ RunReceiptsCheck(FALSE)
    /\ UNCHANGED <<MainUnchanged, err1559>>

CheckActivationValidate1559Params ==
    /\ tool = "CheckActivation"
    /\ pc = "fee"
    /\ Run1559Check(FALSE)
    /\ UNCHANGED <<MainUnchanged, receipts, errReceipts>>

ValidatePairReceipts ==
    /\ tool = "ValidatePair"
    /\ pc = "receipts"
    /\ RunReceiptsCheck(TRUE)
    /\ UNCHANGED <<MainUnchanged, err1559>>

ValidatePair1559Params ==
    /\ tool = "ValidatePair"
    /\ pc = "fee"
    /\ Run1559Check(TRUE)
    /\ UNCHANGED <<MainUnchanged, receipts, errReceipts>>

NextMain ==
    \/ NewRPC
    \/ NewL1Client
    \/ CheckActivationValidateReceipts
    \/ CheckActivationValidate1559Params
    \/ ValidatePairReceipts
    \/ ValidatePair1559Params

SpecMain == InitMain /\ [][NextMain]_vars

\* The exit status of the process once it is over: main returning gives 0,
\* log.Crit calls os.Exit(1), an unrecovered panic gives 2.
ExitStatus ==
    IF pc = "done" THEN 0
    ELSE IF pc = "exited" THEN 1
    ELSE IF pc = "crashed" THEN 2
    ELSE -1

(***************************************************************************)
(* The etherscan fetchers of bindgen.  Each runs the loop                  *)
(* for retries := 0; retries < maxRetries; retries++, one HTTP request per *)
(* iteration.  The outcome of a request is a record: http tells whether    *)
(* fetchHttp returned a body, json whether the body unmarshalled, message  *)
(* and result are the fields of an etherscanApiResponse, input the         *)
(* Result.Input of an etherscanRpcResponse.                                *)
(***************************************************************************)
RateLimitResult == "Max rate limit reached"

\* fetchHttp returned an error.
HttpFailure == EmptyResponse

\* fetchHttp returned a body that json.Unmarshal rejects.
BadJson == [EmptyResponse EXCEPT !.http = TRUE]

\* What a request of fetchEtherscanApi may bring.
ApiResponses ==
    {HttpFailure, BadJson}
        \cup {[http |-> TRUE, json |-> TRUE, message |-> m, result |-> r, input |-> ""] :
                 m \in {"OK", "NOTOK", ""}, r \in {RateLimitResult, "[]"}}

\* What a request of fetchDeploymentData may bring.
RpcResponses ==
    {HttpFailure, BadJson}
        \cup {[http |-> TRUE, json |-> TRUE, message |-> "", result |-> "", input |-> i] :
                 i \in {"", "0x60"}}

\* return etherscanApiResponse{}, err / return "", err
FetchError(kind, n) ==
    [status |-> "error", err |-> kind, n |-> n, data |-> "", response |-> EmptyResponse]

\* return apiResponse, nil
FetchedResponse(r) ==
    [status |-> "ok", err |-> "", n |-> 0, data |-> "", response |-> r]

\* return rpcResponse.Result.Input, nil
FetchedData(i) ==
    [status |-> "ok", err |-> "", n |-> 0, data |-> i, response |-> EmptyResponse]

Continue == [continue |-> TRUE, ret |-> NotFetched]

Return(ret) == [continue |-> FALSE, ret |-> ret]

IsRateLimitAnyNotOk(r) == r.message = "NOTOK"

\* apiResponse.Message == "NOTOK" && apiResponse.Result == "Max rate limit reached"
IsRateLimit(r) == r.message = "NOTOK" /\ r.result = RateLimitResult

\* One iteration of the loop of fetchEtherscanApi on the outcome r of its
\* request.
EtherscanApiStep(r) ==
    IF ~r.http THEN Return(FetchError("http", 0))
    ELSE IF ~r.json THEN Return(FetchError("unmarshal", 0))
    ELSE IF IsRateLimit(r) THEN Continue
    ELSE IF r.message # "OK" THEN Return(FetchError("issue", 0))
    ELSE Return(FetchedResponse(r))

DeploymentDataStepRetryHttp(r) ==
    IF ~r.http THEN Continue
    ELSE IF ~r.json THEN Continue
    ELSE Return(FetchedData(r.input))

\* One iteration of the loop of fetchDeploymentData on the outcome r of its
\* request.
DeploymentDataStep(r) ==
    IF ~r.http THEN Return(FetchError("http", 0))
    ELSE IF ~r.json THEN Continue
    ELSE Return(FetchedData(r.input))

\* One iteration: the request is issued, its outcome r is recorded, and the
\* loop goes on or the function returns.
Iterate(r, step) ==
    /\ responses' = Append(responses, r)
    /\ IF step.continue
       THEN retries' = retries + 1 /\ fetched' = fetched
       ELSE retries' = retries /\ fetched' = step.ret

\* fmt.Errorf("Failed to fetch from Etherscan ... after %d retries", maxRetries)
Exhausted ==
    /\ fetched' = FetchError("retries", apiMaxRetries)
    /\ UNCHANGED <<retries, responses>>

FetchUnchanged ==
    <<fetchFn, apiMaxRetries, feeVars, encVars, chainVars, checkVars, hashVars, mainVars>>

InitFetch ==
    /\ fetchFn \in {"fetchEtherscanApi", "fetchDeploymentData"}
    /\ apiMaxRetries \in -1..MaxApiRetries
    /\ retries = 0
    /\ responses = <<>>
    /\ fetched = NotFetched
    /\ HashIdle
    /\ MainIdle
    /\ parent = [gasLimit |-> 0, gasUsed |-> 0, baseFee |-> 0]
    /\ elasticity = 1
    /\ fee = [v \in BOOLEAN |-> NotCalled]
    /\ receipts = <<>>
    /\ out = [v \in BOOLEAN |-> NoOutput]
    /\ number = Uint64(1)
    /\ blockBaseFee = 0
    /\ receiptHash = {}
    /\ err1559 = [v \in BOOLEAN |-> NotRun]
    /\ errReceipts = [v \in BOOLEAN |-> NotRunReceipts]
    /\ calls = [v \in BOOLEAN |-> <<>>]

FetchEtherscanApiRequest ==
    /\ fetchFn = "fetchEtherscanApi"
    /\ fetched.status = "none"
    /\ retries < apiMaxRetries
    /\ \E r \in ApiResponses : Iterate(r, EtherscanApiStep(r))
    /\ UNCHANGED FetchUnchanged

FetchEtherscanApiExhausted ==
    /\ fetchFn = "fetchEtherscanApi"
    /\ fetched.status = "none"
    /\ ~(retries < apiMaxRetries)
    /\ Exhausted
    /\ UNCHANGED FetchUnchanged

FetchDeploymentDataRequest ==
    /\ fetchFn = "fetchDeploymentData"
    /\ fetched.status = "none"
    /\ retries < apiMaxRetries
    /\ \E r \in RpcResponses : Iterate(r, DeploymentDataStep(r))
    /\ UNCHANGED FetchUnchanged

FetchDeploymentDataExhausted ==
    /\ fetchFn = "fetchDeploymentData"
    /\ fetched.status = "none"
    /\ ~(retries < apiMaxRetries)
    /\ Exhausted
    /\ UNCHANGED FetchUnchanged

NextFetch ==
    \/ FetchEtherscanApiRequest
    \/ FetchEtherscanApiExhausted
    \/ FetchDeploymentDataRequest
    \/ FetchDeploymentDataExhausted

SpecFetch == InitFetch /\ [][NextFetch]_vars

\* The fetcher is a sequential loop: as long as it has not returned, its next
\* iteration runs (every HTTP request is taken to return).
SpecFetchFair == SpecFetch /\ WF_vars(NextFetch)

(***************************************************************************)
(* The fee model: properties.                                              *)
(***************************************************************************)
Called(v) == fee[v].status # "none"

C2_UnchangedFeeBoundary ==
    \A v \in BOOLEAN :
        (Called(v) /\ elasticity > 0 /\ parent.gasUsed = parent.gasLimit \div elasticity)
            => fee[v] = Returned(parent.baseFee)

C2_Witness ==
    /\ Called(TRUE) /\ Called(FALSE)
    /\ elasticity > 1
    /\ parent.gasUsed = parent.gasLimit \div elasticity
    /\ parent.gasUsed > 0
    /\ parent.baseFee >= 250
    /\ fee[TRUE].val = parent.baseFee /\ fee[FALSE].val = parent.baseFee

\* C3: when gasUsed is above the target, CalcBaseFee returns a fee that is at
\* least parent.baseFee + 1, under both variants.
C3_MonotonicIncrease ==
    \A v \in BOOLEAN :
        (Called(v) /\ elasticity > 0 /\ parent.gasUsed > parent.gasLimit \div elasticity)
            => (fee[v].status = "ok" /\ fee[v].val >= parent.baseFee + 1)

\* C4: when gasUsed is below the target, CalcBaseFee returns a fee that is at
\* most parent.baseFee and never negative; a zero base fee stays zero.
C4_MonotonicDecrease ==
    \A v \in BOOLEAN :
        (Called(v) /\ elasticity > 0 /\ parent.gasUsed < parent.gasLimit \div elasticity)
            => /\ fee[v].status = "ok"
               /\ fee[v].val <= parent.baseFee
               /\ fee[v].val >= 0
               /\ (parent.baseFee = 0 => fee[v].val = 0)

C4_Witness ==
    /\ Called(TRUE) /\ Called(FALSE)
    /\ ~IsExample
    /\ elasticity > 0
    /\ parent.gasUsed < parent.gasLimit \div elasticity
    /\ fee[TRUE].val < fee[FALSE].val
    /\ fee[FALSE].val < parent.baseFee

\* C5: for every input with elasticity > 0, CalcBaseFee returns a value and
\* never fails (no division by zero).
C5_NoErrorConditions ==
    \A v \in BOOLEAN :
        (Called(v) /\ elasticity > 0) => fee[v].status = "ok"

\* C6 as stated: in the worked example (gasLimit 30,000,000, elasticity 6,
\* gasUsed 1,000,000) the computed fee is strictly below parent.baseFee for
\* every parent.baseFee, under both variants.
C6_ExampleStrictDecrease ==
    \A v \in BOOLEAN :
        (Called(v) /\ IsExample) => (fee[v].status = "ok" /\ fee[v].val < parent.baseFee)

\* C6 amended: in the worked example the computed fee is at most
\* parent.baseFee, and it is strictly below parent.baseFee exactly when
\* parent.baseFee >= 63 under Legacy and parent.baseFee >= 313 under Upgraded.
C6_ExampleDecreaseAmended ==
    \A v \in BOOLEAN :
        (Called(v) /\ IsExample)
            => /\ fee[v].status = "ok"
               /\ fee[v].val <= parent.baseFee
               /\ (fee[v].val < parent.baseFee
                     <=> parent.baseFee >= (IF v THEN 63 ELSE 313))

C6_Witness ==
    /\ IsExample
    /\ Called(TRUE) /\ Called(FALSE)
    /\ fee[TRUE].val < parent.baseFee
    /\ fee[FALSE].val < parent.baseFee

\* C7 as stated: in the worked example the Legacy decrease is larger than the
\* Upgraded decrease, for every parent.baseFee.
C7_ExampleVariantOrdering ==
    (IsExample /\ Called(TRUE) /\ Called(FALSE))
        => (parent.baseFee - fee[TRUE].val) > (parent.baseFee - fee[FALSE].val)

\* C7 amended: in the worked example the Legacy decrease is at least the
\* Upgraded decrease, and it is strictly larger exactly when
\* parent.baseFee >= 63.
C7_ExampleVariantOrderingAmended ==
    (IsExample /\ Called(TRUE) /\ Called(FALSE))
        => /\ (parent.baseFee - fee[TRUE].val) >= (parent.baseFee - fee[FALSE].val)
           /\ ((parent.baseFee - fee[TRUE].val) > (parent.baseFee - fee[FALSE].val)
                 <=> parent.baseFee >= 63)

C7_Witness ==
    /\ IsExample
    /\ Called(TRUE) /\ Called(FALSE)
    /\ parent.baseFee - fee[FALSE].val > 0
    /\ parent.baseFee - fee[TRUE].val > parent.baseFee - fee[FALSE].val

(***************************************************************************)
(* The receipt encoders: properties.                                       *)
(***************************************************************************)
\* The version marker an encoded deposit receipt carries: <<>> when the
\* encoding has no marker field, <<b>> when it ends with the marker item b.
EncodedMarker(e) == IF Len(e) = 4 THEN <<e[4]>> ELSE <<>>

\* C10: every receipt of the deposit type is encoded by PostCanyonEncode with
\* a version marker present and equal to 1, and by PreCanyonEncode with no
\* marker at all, whatever marker the receipt object carried before the call.
C10_VersionMarkerRule ==
    \A i \in 1..Len(receipts) :
        receipts[i].type = DepositTxType
            => /\ out[FALSE].status = "ok" => EncodedMarker(out[FALSE].val[i]) = <<1>>
               /\ out[TRUE].status = "ok" => EncodedMarker(out[TRUE].val[i]) = <<>>

\* Both encoders have run on a sequence holding a deposit receipt; the
\* Upgraded encoder ran last, on an object the Legacy encoder had left without
\* a marker.
C10_Witness ==
    /\ out[TRUE].status = "ok" /\ out[FALSE].status = "ok"
    /\ \E i \in 1..Len(receipts) :
        /\ receipts[i].type = DepositTxType
        /\ receipts[i].depositReceiptVersion = <<1>>
        /\ EncodedMarker(out[FALSE].val[i]) = <<1>>
        /\ EncodedMarker(out[TRUE].val[i]) = <<>>

(***************************************************************************)
(* The checks: properties.                                                 *)
(***************************************************************************)
\* The check ran under variant v and both of its data-source calls succeeded.
Compared1559(v) == err1559[v].status \in {"nil", "mismatch", "panic"}

\* The observed base fee is what variant v produces from the parent.
ProducedBy1559(v) ==
    /\ RefDefined(parent, elasticity)
    /\ blockBaseFee = RefBaseFee(parent, elasticity, v)

\* C8 as stated: when the observed base fee was produced from the parent by
\* variant V, Validate1559Params returns nil under V and a mismatch error
\* under the opposite variant, for every parent.
C8_FeeExclusivity ==
    \A v \in BOOLEAN :
        (ProducedBy1559(v) /\ Compared1559(v) /\ Compared1559(~v))
            => (err1559[v].status = "nil" /\ err1559[~v].status = "mismatch")

\* C8 amended: when the observed base fee was produced from the parent by
\* variant V, Validate1559Params returns nil under V; under the opposite
\* variant it returns a mismatch error (carrying the observed fee and the fee
\* the opposite variant computes) exactly when the two variants compute
\* different fees from that parent, and nil when they compute the same fee.
C8_FeeExclusivityAmended ==
    \A v \in BOOLEAN :
        (ProducedBy1559(v) /\ Compared1559(v) /\ Compared1559(~v))
            => /\ err1559[v] = ErrNil
               /\ err1559[~v] =
                    IF RefBaseFee(parent, elasticity, ~v) # RefBaseFee(parent, elasticity, v)
                    THEN ErrBaseFee(blockBaseFee, RefBaseFee(parent, elasticity, ~v))
                    ELSE ErrNil

\* The Legacy fee is observed, the variants differ, and both checks compared.
C8_Witness ==
    /\ ProducedBy1559(TRUE)
    /\ ~ProducedBy1559(FALSE)
    /\ err1559[TRUE].status = "nil"
    /\ err1559[FALSE].status = "mismatch"

ComparedReceipts(v) == errReceipts[v].status \in {"nil", "mismatch"}

\* The observed receipts root is what variant v produces from the receipts.
ProducedByReceipts(v) ==
    receiptHash = HashList(IF v THEN PreCanyonEncode(receipts) ELSE PostCanyonEncode(receipts))

HasDeposit == \E i \in 1..Len(receipts) : receipts[i].type = DepositTxType

\* C9 as stated: when the observed receipts root was produced by variant V,
\* ValidateReceipts returns nil under V and a mismatch error under the
\* opposite variant, for every receipt sequence.
C9_ReceiptsExclusivity ==
    \A v \in BOOLEAN :
        (ProducedByReceipts(v) /\ ComparedReceipts(v) /\ ComparedReceipts(~v))
            => (errReceipts[v].status = "nil" /\ errReceipts[~v].status = "mismatch")

\* C9 amended: when the observed receipts root was produced by variant V,
\* ValidateReceipts returns nil under V; under the opposite variant it
\* returns a mismatch error exactly when the sequence holds at least one
\* deposit-type receipt, and nil when it holds none (the empty sequence
\* included).
C9_ReceiptsExclusivityAmended ==
    \A v \in BOOLEAN :
        (ProducedByReceipts(v) /\ ComparedReceipts(v) /\ ComparedReceipts(~v))
            => /\ errReceipts[v].status = "nil"
               /\ errReceipts[~v].status = (IF HasDeposit THEN "mismatch" ELSE "nil")

\* The Upgraded root is observed for a sequence of two receipts, one of them
\* a deposit, and both checks compared.
C9_Witness ==
    /\ Len(receipts) = 2
    /\ HasDeposit
    /\ \E i \in 1..Len(receipts) : receipts[i].type # DepositTxType
    /\ ProducedByReceipts(FALSE)
    /\ errReceipts[FALSE].status = "nil"
    /\ errReceipts[TRUE].status = "mismatch"

(***************************************************************************)
(* The receipt encoders and HashList: further properties.                  *)
(***************************************************************************)
Encoded(v) == out[v].status = "ok"

\* C11: once both encoders have run on a sequence, every receipt that is not
\* of the deposit type has the same byte string at its position in the output
\* of PreCanyonEncode and in the output of PostCanyonEncode.
C11_NonDepositIdentical ==
    (Encoded(TRUE) /\ Encoded(FALSE))
        => /\ Len(out[TRUE].val) = Len(receipts)
           /\ Len(out[FALSE].val) = Len(receipts)
           /\ \A i \in 1..Len(receipts) :
                receipts[i].type # DepositTxType => out[TRUE].val[i] = out[FALSE].val[i]

\* Both encoders ran on a deposit receipt followed by a non-deposit one: the
\* outputs differ at the deposit and agree at the other.
C11_Witness ==
    /\ Encoded(TRUE) /\ Encoded(FALSE)
    /\ Len(receipts) = 2
    /\ receipts[1].type = DepositTxType
    /\ receipts[2].type = DynamicFeeTxType
    /\ out[TRUE].val[1] # out[FALSE].val[1]
    /\ out[TRUE].val[2] = out[FALSE].val[2]

\* The encoding of the one receipt r alone, under variant v.
EncodeOne(r, v) == IF v THEN PreCanyonEncode(<<r>>)[1] ELSE PostCanyonEncode(<<r>>)[1]

\* C12: under both variants the encoder returns as many byte strings as there
\* are receipts, and position i of the output is the encoding of receipt i.
C12_OnePerReceiptInOrder ==
    \A v \in BOOLEAN :
        Encoded(v)
            => /\ Len(out[v].val) = Len(receipts)
               /\ \A i \in 1..Len(receipts) : out[v].val[i] = EncodeOne(receipts[i], v)

\* Two receipts with different encodings were encoded under both variants.
C12_Witness ==
    /\ Encoded(TRUE) /\ Encoded(FALSE)
    /\ Len(receipts) = 2
    /\ \A v \in BOOLEAN :
        /\ Len(out[v].val) = 2
        /\ out[v].val[1] # out[v].val[2]

\* The canonical minimal big-endian bytes of an index, 0 being the empty key.
MinimalBigEndian(n) ==
    IF n = 0 THEN <<>>
    ELSE IF n < 256 THEN <<n>>
    ELSE <<n \div 256, n % 256>>

\* The rlp encoding of an index below 65536: 0x80 for 0, the byte itself up
\* to 127, otherwise 0x80 + the byte count followed by the big-endian bytes.
RlpKey(n) ==
    IF n = 0 THEN <<128>>
    ELSE IF n < 128 THEN <<n>>
    ELSE IF n < 256 THEN <<129, n>>
    ELSE <<130, n \div 256, n % 256>>

Hashed == hashRoot.status = "ok"

\* C13 as stated: for every index i of the list HashList stores the value
\* entries[i] under the minimal big-endian bytes of i, index 0 under the
\* empty key.
C13_StoredUnderBigEndianKey ==
    Hashed
        => \A i \in 1..Len(hashList) :
                <<MinimalBigEndian(i - 1), hashList[i]>> \in hashRoot.val

\* C13 amended: HashList stores exactly, for every index i whose entry is not
\* empty, the value entries[i] under the rlp encoding of i (the byte 0x80 for
\* index 0, the byte i for 1..127, a length prefix and the big-endian bytes
\* above); an empty entry stores nothing.
C13_StoredUnderRlpKeyAmended ==
    Hashed
        => hashRoot.val =
             {<<RlpKey(i - 1), hashList[i]>> :
                 i \in {k \in 1..Len(hashList) : hashList[k] # <<>>}}

\* A list long enough for a two-byte key was hashed.
C13_Witness ==
    /\ Hashed
    /\ Len(hashList) > 128
    /\ <<<<128>>, hashList[1]>> \in hashRoot.val
    /\ <<<<129, 128>>, hashList[129]>> \in hashRoot.val

Swap(rs, i, j) ==
    [k \in 1..Len(rs) |-> IF k = i THEN rs[j] ELSE IF k = j THEN rs[i] ELSE rs[k]]

EncodeUnder(rs, v) == IF v THEN PreCanyonEncode(rs) ELSE PostCanyonEncode(rs)

\* C14: for a sequence encoded under either variant and any two positions
\* whose receipts encode to different bytes, swapping the two receipts gives
\* a different HashList root.
C14_OrderSensitivity ==
    \A v \in BOOLEAN :
        Encoded(v)
            => \A i, j \in 1..Len(receipts) :
                 (i # j /\ EncodeOne(receipts[i], v) # EncodeOne(receipts[j], v))
                    => HashList(EncodeUnder(Swap(receipts, i, j), v)) # HashList(out[v].val)

\* A sequence of two receipts with different encodings was encoded, and the
\* root of the swapped sequence differs.
C14_Witness ==
    /\ Encoded(FALSE)
    /\ Len(receipts) = 2
    /\ out[FALSE].val[1] # out[FALSE].val[2]
    /\ HashList(EncodeUnder(Swap(receipts, 1, 2), FALSE)) # HashList(out[FALSE].val)

(***************************************************************************)
(* The checks: what a single call returns.                                 *)
(***************************************************************************)
\* C15: when both data-source calls of ValidateReceipts succeed (the block at
\* Args.Number, then the receipts of that block), it returns nil if and only
\* if HashList of the receipts encoded under the variant equals the block's
\* receipts root, and otherwise the mismatch error carrying both roots.
C15_NilIffRootsEqual ==
    \A v \in BOOLEAN :
        ComparedReceipts(v)
            => /\ calls[v] = <<InfoByNumberCall(number), FetchReceiptsCall(number)>>
               /\ errReceipts[v] =
                    IF receiptHash = HashList(EncodeUnder(receipts, v))
                    THEN ErrNilReceipts
                    ELSE ErrReceiptHash(v, receiptHash, HashList(EncodeUnder(receipts, v)))

\* A single deposit receipt whose block shows the Legacy root: the Legacy
\* check returned nil and the Upgraded check the mismatch.
C15_Witness ==
    /\ Len(receipts) = 1
    /\ receipts[1].type = DepositTxType
    /\ receiptHash = HashList(EncodeUnder(receipts, TRUE))
    /\ errReceipts[TRUE] = ErrNilReceipts
    /\ errReceipts[FALSE].status = "mismatch"
    /\ errReceipts[FALSE].want # errReceipts[FALSE].have

\* C16: when both data-source calls of Validate1559Params succeed, it returns
\* nil if the fee computed from the parent under the variant equals the
\* block's base fee, and a mismatch error otherwise: in every case it
\* returns.
C16_NilIffFeesEqual ==
    \A v \in BOOLEAN :
        (Compared1559(v) /\ elasticity > 0)
            => /\ err1559[v].status \in {"nil", "mismatch"}
               /\ (err1559[v].status = "nil"
                     <=> (/\ RefDefined(parent, elasticity)
                          /\ blockBaseFee = RefBaseFee(parent, elasticity, v)))

(***************************************************************************)
(* main and the activation check: properties.                              *)
(***************************************************************************)
Checks == {"receipts", "fee"}

\* What the validator of a check returned under variant v.
Err(check, v) == IF check = "receipts" THEN errReceipts[v] ELSE err1559[v]

ReturnedNonNil(check, v) == Err(check, v).status \in {"unavailable", "mismatch"}

ReturnedNil(check, v) == Err(check, v).status = "nil"

\* The log records the activation check of a check wrote.
ReportsOf(check) == SelectSeq(reports, LAMBDA r : r.check = check)

\* The data-source calls of one validator call, in the order of their issue.
LogFor(check, v) ==
    SelectSeq(sourceLog, LAMBDA c : c.check = check /\ c.preCanyon = v)

\* C17: the activation check of a check writes a conformance failure if and
\* only if its validator returned a non-nil error under the assumed variant
\* or nil under the opposite variant, one record for each of the two; when
\* the assumed variant passes and the opposite variant fails it writes none.
C17_ReportsIffExpectationViolated ==
    \A k \in Checks :
        /\ (ReportsOf(k) # <<>>)
              <=> (ReturnedNonNil(k, assumed) \/ ReturnedNil(k, ~assumed))
        /\ Len(ReportsOf(k)) =
              (IF ReturnedNonNil(k, assumed) THEN 1 ELSE 0)
                + (IF ReturnedNil(k, ~assumed) THEN 1 ELSE 0)
        /\ (ReturnedNil(k, assumed) /\ ReturnedNonNil(k, ~assumed))
              => ReportsOf(k) = <<>>

\* A run of CheckActivation to its end: the receipts root passes under the
\* assumed variant only and nothing is written for it, the base fee mismatches
\* under the assumed variant and passes under the opposite one, and both are
\* written.
C17_Witness ==
    /\ tool = "CheckActivation"
    /\ pc = "done"
    /\ errReceipts[assumed].status = "nil"
    /\ errReceipts[~assumed].status = "mismatch"
    /\ ReportsOf("receipts") = <<>>
    /\ err1559[assumed].status = "mismatch"
    /\ err1559[~assumed].status = "nil"
    /\ Len(ReportsOf("fee")) = 2

\* C18: in ValidateReceipts and Validate1559Params a failed data-source call
\* is the last call of that validator call (no second call after a failed
\* first one, no call issued twice), and the validator returns the error of
\* that call, not a mismatch.
C18_FailurePropagatedImmediately ==
    \A k \in Checks : \A v \in BOOLEAN :
        LET log == LogFor(k, v)
        IN  /\ \A i \in 1..Len(log) :
                  ~log[i].ok
                      => /\ i = Len(log)
                         /\ Err(k, v) = (IF k = "receipts"
                                         THEN ErrUnavailableReceipts(i)
                                         ELSE ErrUnavailable(i))
            /\ (log # <<>> /\ ~log[1].ok)
                  => log = <<[check |-> k, preCanyon |-> v,
                              call |-> InfoByNumberCall(number), ok |-> FALSE]>>
            /\ \A i, j \in 1..Len(log) : i # j => log[i].call # log[j].call

\* The first call of ValidateReceipts failed under Legacy, and the second
\* call of Validate1559Params failed under Legacy.
C18_Witness ==
    /\ Len(LogFor("receipts", TRUE)) = 1
    /\ ~LogFor("receipts", TRUE)[1].ok
    /\ errReceipts[TRUE].status = "unavailable"
    /\ Len(LogFor("fee", TRUE)) = 2
    /\ ~LogFor("fee", TRUE)[2].ok
    /\ err1559[TRUE].status = "unavailable"

\* The log records about the validator call under variant v.
MsgAbout(v) == IF v THEN {PreInvalidMsg, PreValidMsg} ELSE {PostValidMsg, PostInvalidMsg}

\* The activation check wrote nothing about the call under v: it took the
\* call's result for the expected one.
Accepted(check, v) ==
    \A i \in 1..Len(ReportsOf(check)) : ReportsOf(check)[i].msg \notin MsgAbout(v)

\* C19: a data-source error returned by a validator is neither written as a
\* conformance failure of the assumed variant nor taken for the expected
\* mismatch of the opposite variant.
C19_UnavailableInconclusive ==
    \A k \in Checks : \A v \in BOOLEAN :
        Err(k, v).status = "unavailable"
            => (IF v = assumed THEN Accepted(k, v) ELSE ~Accepted(k, v))

\* The run is over.
Ended == pc \in {"done", "exited", "crashed"}

\* C20: when the activation check of the receipts root wrote a conformance
\* failure, the run does not end before the activation check of the base fee
\* has called its validator.
C20_FeeCheckStillEvaluated ==
    (Ended /\ ReportsOf("receipts") # <<>>) => err1559[TRUE].status # "none"

(***************************************************************************)
(* The process: how a run ends.                                            *)
(***************************************************************************)
\* Every expectation of both activation checks is met.
FullConformance ==
    \A k \in Checks : ReturnedNil(k, assumed) /\ Err(k, ~assumed).status = "mismatch"

\* C21: a run in which a conformance failure was written ends with a non-zero
\* exit status, and a run ends with exit status 0 only on full conformance.
C21_FailureSignalled ==
    Ended => /\ reports # <<>> => ExitStatus # 0
             /\ ExitStatus = 0 => FullConformance

\* The data-source calls of a check, over both variants.
FailedCalls(check) ==
    {v \in BOOLEAN : \E i \in 1..Len(LogFor(check, v)) : ~LogFor(check, v)[i].ok}

\* Nothing of the fee check has happened.
FeeCheckNotRun ==
    /\ \A v \in BOOLEAN : err1559[v].status = "none" /\ LogFor("fee", v) = <<>>
    /\ ReportsOf("fee") = <<>>

\* C22: at the first conformance failure written or data-source call failed
\* the process ends with a non-zero status: at most one record is ever
\* written, nothing follows a record or a failure under Legacy (no call
\* under Upgraded), and nothing follows a record or a failure of the receipts
\* check (no fee check).
C22_TerminatesAtFirstFatal ==
    /\ Len(reports) <= 1
    /\ \A k \in Checks :
          (ReportsOf(k) # <<>> \/ FailedCalls(k) # {})
              => /\ pc = "exited"
                 /\ ExitStatus # 0
                 /\ (TRUE \in FailedCalls(k) \/ ~Accepted(k, TRUE))
                       => LogFor(k, FALSE) = <<>>
                 /\ k = "receipts" => FeeCheckNotRun

(***************************************************************************)
(* The validators: calls, errors and the receipt objects.                  *)
(***************************************************************************)
\* C23: one call of ValidateReceipts or of Validate1559Params issues at most
\* two data-source calls, whether it returns nil, a mismatch error or the
\* error of a failed call, and a validator that was not called issues none.
C23_AtMostTwoCalls ==
    \A k \in Checks : \A v \in BOOLEAN :
        /\ Len(LogFor(k, v)) <= 2
        /\ Err(k, v).status = "none" => LogFor(k, v) = <<>>
        /\ Err(k, v).status \in {"nil", "mismatch", "panic"} => Len(LogFor(k, v)) = 2

\* One validator call compared after two calls, one returned after its first
\* call failed, one after its second call failed.
C23_Witness ==
    /\ Len(LogFor("receipts", TRUE)) = 2 /\ errReceipts[TRUE].status = "mismatch"
    /\ Len(LogFor("receipts", FALSE)) = 1 /\ errReceipts[FALSE].status = "unavailable"
    /\ Len(LogFor("fee", TRUE)) = 2 /\ err1559[TRUE].status = "unavailable"
    /\ Len(LogFor("fee", FALSE)) = 2 /\ err1559[FALSE].status = "nil"

\* The observed and the computed value of a check under variant v.
Observed(check) == IF check = "receipts" THEN receiptHash ELSE blockBaseFee

Computed(check, v) ==
    IF check = "receipts" THEN HashList(EncodeUnder(receipts, v))
    ELSE RefBaseFee(parent, elasticity, v)

\* C24: a mismatch error carries the computed value, the observed value and
\* the variant, and every non-nil error a validator returned to the
\* activation check has a log record.
C24_MismatchAttributedAndReported ==
    \A k \in Checks : \A v \in BOOLEAN :
        /\ Err(k, v).status = "mismatch"
              => /\ Err(k, v).have = Observed(k)
                 /\ Err(k, v).want = Computed(k, v)
                 /\ "preCanyon" \in DOMAIN Err(k, v)
                 /\ Err(k, v).preCanyon = v
        /\ ReturnedNonNil(k, v) => ~Accepted(k, v)

\* C25: a call of PreCanyonEncode or of PostCanyonEncode leaves every receipt
\* it was handed as it was before the call.
C25_InputUnchanged == [][receipts' = receipts]_vars

Markers == {<<>>, <<0>>, <<1>>}

\* The receipt sequences that differ from rs at most in the version markers
\* of its deposit receipts: what earlier encoder calls on the same objects
\* may have left, and what the objects were before them.
Remarkings(rs) ==
    {[i \in 1..Len(rs) |->
         IF rs[i].type = DepositTxType
         THEN [rs[i] EXCEPT !.depositReceiptVersion = m[i]]
         ELSE rs[i]] : m \in [1..Len(rs) -> Markers]}

\* C26: what ValidateReceipts returned under a variant is what it returns on
\* the same receipt objects whatever version markers they carry, hence
\* whether or not the check of the opposite variant has written its marker
\* into them before.
C26_OrderIrrelevant ==
    \A v \in BOOLEAN :
        ComparedReceipts(v)
            => \A rs \in Remarkings(receipts) :
                   ValidateReceipts(rs, receiptHash, v, TRUE, TRUE) = errReceipts[v]

\* Both checks compared a sequence with a deposit receipt whose objects now
\* carry the marker of the Upgraded encoder; Legacy passed and Upgraded
\* mismatched.
C26_Witness ==
    /\ HasDeposit
    /\ \A i \in 1..Len(receipts) :
          receipts[i].type = DepositTxType => receipts[i].depositReceiptVersion = <<1>>
    /\ errReceipts[TRUE] = ErrNilReceipts
    /\ errReceipts[FALSE].status = "mismatch"

(***************************************************************************)
(* The etherscan fetchers: properties.                                     *)
(***************************************************************************)
FetchReturned == fetched.status # "none"

\* The response is the rate-limit response of the API.
RateLimited(r) ==
    r.http /\ r.json /\ r.message = "NOTOK" /\ r.result = "Max rate limit reached"

\* The requests issued so far, all but the last, brought a response for which
\* the fetcher retries.
EarlierAll(Retried(_)) == \A i \in 1..(Len(responses) - 1) : Retried(responses[i])

AllOf(Retried(_)) == \A i \in 1..Len(responses) : Retried(responses[i])

Last == responses[Len(responses)]

Budget == IF apiMaxRetries > 0 THEN apiMaxRetries ELSE 0

\* fetchEtherscanApi issues at most apiMaxRetries requests, a further request
\* only after a rate-limit response, and returns at once the error of an
\* HTTP failure, of an unmarshal failure or of another non-OK message, at
\* once an OK response, and the 'after N retries' error when every request
\* was rate-limited or none was allowed.
C27_Safety ==
    fetchFn = "fetchEtherscanApi"
        => /\ Len(responses) <= Budget
           /\ EarlierAll(RateLimited)
           /\ (responses # <<>> /\ ~RateLimited(Last))
                => fetched =
                     IF ~Last.http THEN FetchError("http", 0)
                     ELSE IF ~Last.json THEN FetchError("unmarshal", 0)
                     ELSE IF Last.message # "OK" THEN FetchError("issue", 0)
                     ELSE FetchedResponse(Last)
           /\ (FetchReturned /\ AllOf(RateLimited))
                => /\ Len(responses) = Budget
                   /\ fetched = FetchError("retries", apiMaxRetries)
           /\ (~FetchReturned) => (AllOf(RateLimited) /\ Len(responses) = retries)

\* C27: the safety part above holds throughout, and fetchEtherscanApi always
\* returns.
C27_BoundedRetriesAndTermination ==
    [](C27_Safety) /\ <>(FetchReturned)

\* Two requests of fetchEtherscanApi were rate-limited and the third, the last
\* one allowed, brought OK.
C27_Witness ==
    /\ fetchFn = "fetchEtherscanApi"
    /\ apiMaxRetries = 3
    /\ Len(responses) = 3
    /\ RateLimited(responses[1]) /\ RateLimited(responses[2])
    /\ fetched.status = "ok"
    /\ fetched.response.message = "OK"

\* The body of the response failed to unmarshal.
Unmarshalable(r) == r.http /\ ~r.json

C29_AlwaysBothVariants ==
    tool = "CheckActivation"
        => \A k \in Checks :
              /\ Err(k, TRUE).status # "none" => Err(k, FALSE).status # "none"
              /\ Err(k, FALSE).status # "none" => Err(k, TRUE).status # "none"
              /\ \A i, j \in 1..Len(sourceLog) :
                    (/\ sourceLog[i].check = k /\ sourceLog[j].check = k
                     /\ sourceLog[i].preCanyon /\ ~sourceLog[j].preCanyon) => i < j

\* x + 1 in uint64 arithmetic, limb by limb with carry (2^64 - 1 wraps to 0).
Uint64Inc(x) ==
    IF x[4] < 65535 THEN <<x[1], x[2], x[3], x[4] + 1>>
    ELSE IF x[3] < 65535 THEN <<x[1], x[2], x[3] + 1, 0>>
    ELSE IF x[2] < 65535 THEN <<x[1], x[2] + 1, 0, 0>>
    ELSE IF x[1] < 65535 THEN <<x[1] + 1, 0, 0, 0>>
    ELSE <<0, 0, 0, 0>>

Uint64Max == <<65535, 65535, 65535, 65535>>

\* C30: whenever the first InfoByNumber call of Validate1559Params succeeded,
\* its second call is issued, for the height h with h + 1 = Args.Number in
\* uint64 arithmetic: 2^64 - 1 when Args.Number is 0.
C30_ParentHeightWraps ==
    \A v \in BOOLEAN :
        (err1559[v].status # "none" /\ err1559[v] # ErrUnavailable(1))
            => /\ Len(calls[v]) = 2
               /\ calls[v][1] = <<"InfoByNumber", number>>
               /\ calls[v][2][1] = "InfoByNumber"
               /\ Uint64Inc(calls[v][2][2]) = number
               /\ number = <<0, 0, 0, 0>> => calls[v][2][2] = Uint64Max

\* At height 0 the check ran to its comparison with the parent requested at
\* 2^64 - 1.
C30_Witness ==
    /\ number = <<0, 0, 0, 0>>
    /\ err1559[TRUE].status \in {"nil", "mismatch"}
    /\ calls[TRUE] = <<<<"InfoByNumber", <<0, 0, 0, 0>>>>, <<"InfoByNumber", Uint64Max>>>>
====
